---- MODULE Spec2Model ----
(***************************************************************************)
(* Model of polygon-zkevm-adaptor/src/random_client.rs: a Run drives two   *)
(* concurrent async activities over one RwLock<State>:                     *)
(*   - submit_operations: walks the script, submits transfers, sleeps on   *)
(*     waits and pushes the resulting effects to `pending`;                *)
(*   - wait_for_effects: pops effects, polls their receipt, re-enqueues    *)
(*     them, or clears the queue and re-initialises the nonce manager when *)
(*     one of them is older than 90 seconds.                               *)
(* Guards returned by RwLock::read / RwLock::write are held for as long as *)
(* the Rust temporary or binding that owns them lives; the model keeps     *)
(* that extent (readers / writer) explicitly.                              *)
(***************************************************************************)
EXTENDS Integers, Sequences, FiniteSets, TLC

VARIABLES
    operations,             \* Run.operations: the script
    index,                  \* submit_operations: loop position (1-based)
    submitterPc,            \* submit_operations: program position
    sleepLeft,              \* remaining time of the sleep of Operation::Wait
    trackerPc,              \* wait_for_effects: program position
    current,                \* wait_for_effects: the popped effect (0: none)
    pending,                \* State.pending (effects named by script index)
    submit_operations_done, \* State.submit_operations_done
    client,                 \* State.client (identity of the Arc<Middleware>)
    writer,                 \* task holding the write guard of Run.state
    readers,                \* tasks holding a read guard of Run.state
    receipt,                \* transactions the chain has a receipt for
    elapsed,                \* start.elapsed() of every effect, in seconds
    submitted,              \* transfers for which send_transaction returned
    usedClient,             \* client handle each operation was executed with
    startedLog,             \* operations in the order execute was called
    finishedLog,            \* operations in the order execute returned
    pushLog,                \* effects in the order submit_operations pushed
    reported,               \* per effect: its receive_receipt /
                            \* receipt_timeout / effect_clear log lines
    atTimeout,              \* effects queued when receipt_timeout was logged
    doneSets,               \* number of times the done flag was assigned
    lastWaitReceipt,        \* elapsed time in the "wait_receipt" log line of
                            \* the tracker cycle in progress (-1: none)
    ahead,                  \* per effect: the effects that were queued when
                            \* it was last re-enqueued and not popped since
    total_duration,         \* Operations::generate: the argument
    wait_time,              \* Operations::generate: the local wait_time
    genPc,                  \* Operations::generate / save / load: position
    data,                   \* content of the file written by save
    loaded                  \* the Operations returned by load

vars == <<operations, index, submitterPc, sleepLeft, trackerPc, current,
          pending, submit_operations_done, client, writer, readers, receipt,
          elapsed, submitted, usedClient, startedLog, finishedLog, pushLog,
          reported, atTimeout, doneSets, lastWaitReceipt, ahead,
          total_duration, wait_time, genPc, data, loaded>>

\* the variables of Operations::generate, save and load
genVars == <<total_duration, wait_time, genPc, data, loaded>>

\* the variables of a Run (all but its script)
runVars == <<index, submitterPc, sleepLeft, trackerPc, current, pending,
             submit_operations_done, client, writer, readers, receipt,
             elapsed, submitted, usedClient, startedLog, finishedLog, pushLog,
             reported, atTimeout, doneSets, lastWaitReceipt, ahead>>

----------------------------------------------------------------------------
(* Bounds of the model *)

MaxOps == 3

\* Durations by which time is observed to advance, in seconds.
TickSteps == {45}

\* Wait durations of the scripts, in seconds.
WaitDurations == {0, 45}

Addresses == {1}

Amounts == {0}

\* largest total_duration given to generate, in seconds
MaxTarget == 3

\* number of draws of generate that are followed
MaxGenLen == 4

\* Wait durations generate draws, in seconds (a few of the range [0, 10s))
GenDurations == {0, 1, 2}

\* field values of the scripts that are saved and loaded
SavedAddresses == {1, 255}

SavedAmounts == {0, 999}

SavedDurations == {0, 45}

----------------------------------------------------------------------------
(* Data model *)

\* Duration::from_secs(90), the receipt timeout
Timeout == 90

Transfer(to, amount) == [kind |-> "Transfer", to |-> to, amount |-> amount]

Wait(duration) == [kind |-> "Wait", duration |-> duration]

Operation ==
    {Transfer(a, m) : a \in Addresses, m \in Amounts}
        \cup {Wait(d) : d \in WaitDurations}

RECURSIVE SeqsUpTo(_, _)
SeqsUpTo(S, n) ==
    IF n = 0 THEN {<<>>}
    ELSE LET shorter == SeqsUpTo(S, n - 1)
         IN  shorter \cup {Append(s, x) : s \in {t \in shorter : Len(t) = n - 1},
                                          x \in S}

Operations == SeqsUpTo(Operation, MaxOps)

Range(s) == {s[k] : k \in DOMAIN s}

Min(a, b) == IF a < b THEN a ELSE b

Max(a, b) == IF a > b THEN a ELSE b

\* `if let Operation::Transfer(_) = operation`
IsTransfer(op) == op.kind = "Transfer"

\* Operation::execute returns Some(effect) for a transfer, None for a wait
ProducesEffect(op) == op.kind = "Transfer"

push_back_twice(q, e) == Append(Append(q, e), e)

push_front(q, e) == <<e>> \o q

\* VecDeque::push_back
push_back(q, e) == Append(q, e)

front_keep(q) == q

\* VecDeque::pop_front: the queue that is left
pop_front(q) == Tail(q)

\* Arc::new(NonceManagerMiddleware::new(signer, address)): a fresh handle
NonceManagerMiddleware_new(c) == c + 1

TimedOutAtOrAfter(i) == elapsed[i] >= Timeout

\* start.elapsed() > Duration::from_secs(90)
TimedOut(i) == elapsed[i] > Timeout

TerminationConditionEmptyOnly == pending = <<>>

\* state.submit_operations_done && state.pending.is_empty()
TerminationCondition == submit_operations_done /\ pending = <<>>

LoopDoneEarly(i) == i >= Len(operations)

\* the for loop over self.operations.0 is exhausted
LoopDone(i) == i > Len(operations)

NextIndexSkip(i) == i + 2

\* the for loop moves to the following operation
NextIndex(i) == i + 1

----------------------------------------------------------------------------
(* async_std::sync::RwLock of Run.state *)

\* RwLock::read is granted when no write guard is alive.  (An implementation
\* that also refuses readers while a writer waits allows fewer interleavings,
\* not more.)
CanRead == writer = "none"

\* RwLock::write is granted when no guard at all is alive; the lock is not
\* re-entrant, so the holder of a guard is refused like anybody else
CanWrite == writer = "none" /\ readers = {}

----------------------------------------------------------------------------
(* Run::new *)

Init ==
    /\ operations \in Operations
    /\ index = 1
    /\ submitterPc = IF LoopDone(1) THEN "finish" ELSE "read_client"
    /\ sleepLeft = 0
    /\ trackerPc = "log"
    /\ current = 0
    /\ pending = <<>>
    /\ submit_operations_done = FALSE
    /\ client = 0
    /\ writer = "none"
    /\ readers = {}
    /\ receipt = {}
    /\ elapsed = [i \in 1..Len(operations) |-> 0]
    /\ submitted = {}
    /\ usedClient = [i \in 1..Len(operations) |-> -1]
    /\ startedLog = <<>>
    /\ finishedLog = <<>>
    /\ pushLog = <<>>
    /\ reported = [i \in 1..Len(operations) |-> <<>>]
    /\ atTimeout = {}
    /\ doneSets = 0
    /\ lastWaitReceipt = -1
    /\ ahead = [i \in 1..Len(operations) |-> {}]
    /\ total_duration = 0
    /\ wait_time = 0
    /\ genPc = "run"
    /\ data = <<>>
    /\ loaded = <<>>

----------------------------------------------------------------------------
(* Run::submit_operations *)

submitterVars == <<index, submitterPc, sleepLeft, usedClient, startedLog,
                   finishedLog, pushLog, submitted, doneSets>>

trackerVars == <<trackerPc, current, reported, atTimeout, lastWaitReceipt,
                 ahead>>

\* end of one loop iteration
Advance ==
    /\ index' = NextIndex(index)
    /\ submitterPc' = IF LoopDone(NextIndex(index)) THEN "finish"
                      ELSE "read_client"
SubmitterReadClientDropGuard ==
    /\ submitterPc = "read_client"
    /\ CanRead
    /\ readers' = readers
    /\ usedClient' = [usedClient EXCEPT ![index] = client]
    /\ startedLog' = Append(startedLog, index)
    /\ IF IsTransfer(operations[index])
       THEN /\ submitterPc' = "sending"
            /\ sleepLeft' = sleepLeft
       ELSE /\ submitterPc' = "sleeping"
            /\ sleepLeft' = operations[index].duration
    /\ UNCHANGED <<genVars, operations, index, pending, submit_operations_done, client,
                   writer, receipt, elapsed, submitted, finishedLog, pushLog,
                   doneSets, trackerVars>>

\* self.state.read().await.client.clone(), then the call of execute; the
\* read guard is a temporary of the statement and lives until execute is done
SubmitterReadClient ==
    /\ submitterPc = "read_client"
    /\ CanRead
    /\ readers' = readers \cup {"submitter"}
    /\ usedClient' = [usedClient EXCEPT ![index] = client]
    /\ startedLog' = Append(startedLog, index)
    /\ IF IsTransfer(operations[index])
       THEN /\ submitterPc' = "sending"
            /\ sleepLeft' = sleepLeft
       ELSE /\ submitterPc' = "sleeping"
            /\ sleepLeft' = operations[index].duration
    /\ UNCHANGED <<genVars, operations, index, pending, submit_operations_done, client,
                   writer, receipt, elapsed, submitted, finishedLog, pushLog,
                   doneSets, trackerVars>>

\* client.send_transaction(..).await returned Ok: execute builds the effect
\* with start = Instant::now(); the statement ends and drops the read guard
SubmitterSendOk ==
    /\ submitterPc = "sending"
    /\ readers' = readers \ {"submitter"}
    /\ submitted' = submitted \cup {index}
    /\ elapsed' = [elapsed EXCEPT ![index] = 0]
    /\ finishedLog' = Append(finishedLog, index)
    /\ IF ProducesEffect(operations[index])
       THEN submitterPc' = "push" /\ index' = index
       ELSE Advance
    /\ UNCHANGED <<genVars, operations, sleepLeft, pending,
                   submit_operations_done, client, writer, receipt, usedClient,
                   startedLog, pushLog, doneSets, trackerVars>>
SubmitterSendFailContinue ==
    /\ submitterPc = "sending"
    /\ readers' = readers \ {"submitter"}
    /\ Advance
    /\ UNCHANGED <<genVars, operations, sleepLeft, pending,
                   submit_operations_done, client, writer, receipt, elapsed,
                   submitted, usedClient, startedLog, finishedLog, pushLog,
                   doneSets, trackerVars>>

\* client.send_transaction(..).await returned Err: unwrap() panics, the
\* unwinding drops the read guard and the activity is over
SubmitterSendFail ==
    /\ submitterPc = "sending"
    /\ readers' = readers \ {"submitter"}
    /\ submitterPc' = "panicked"
    /\ UNCHANGED <<genVars, operations, index, sleepLeft, pending,
                   submit_operations_done, client, writer, receipt, elapsed,
                   submitted, usedClient, startedLog, finishedLog, pushLog,
                   doneSets, trackerVars>>

\* self.state.write().await.pending.push_back(effect)
SubmitterPush ==
    /\ submitterPc = "push"
    /\ CanWrite
    /\ pending' = push_back(pending, index)
    /\ pushLog' = Append(pushLog, index)
    /\ Advance
    /\ UNCHANGED <<genVars, operations, sleepLeft, submit_operations_done, client,
                   writer, readers, receipt, elapsed, submitted, usedClient,
                   startedLog, finishedLog, doneSets, trackerVars>>

\* async_std::task::sleep(duration) of Operation::Wait is over: execute
\* returns None, the statement ends and drops the read guard
SubmitterWakeUp ==
    /\ submitterPc = "sleeping"
    /\ sleepLeft = 0
    /\ readers' = readers \ {"submitter"}
    /\ finishedLog' = Append(finishedLog, index)
    /\ Advance
    /\ UNCHANGED <<genVars, operations, sleepLeft, pending, submit_operations_done,
                   client, writer, receipt, elapsed, submitted, usedClient,
                   startedLog, pushLog, doneSets, trackerVars>>

\* self.state.write().await.submit_operations_done = true
SubmitterFinish ==
    /\ submitterPc = "finish"
    /\ CanWrite
    /\ submit_operations_done' = TRUE
    /\ doneSets' = doneSets + 1
    /\ submitterPc' = "finished"
    /\ UNCHANGED <<genVars, operations, index, sleepLeft, pending, client, writer,
                   readers, receipt, elapsed, submitted, usedClient,
                   startedLog, finishedLog, pushLog, trackerVars>>

submit_operations ==
    \/ SubmitterReadClient
    \/ SubmitterSendOk
    \/ SubmitterSendFail
    \/ SubmitterPush
    \/ SubmitterWakeUp
    \/ SubmitterFinish

----------------------------------------------------------------------------
(* Run::wait_for_effects *)

\* tracing::info!("num_pending_effects={}", self.state.read().await.pending.len())
TrackerLog ==
    /\ trackerPc = "log"
    /\ CanRead
    /\ trackerPc' = "pop"
    /\ UNCHANGED <<genVars, operations, pending, submit_operations_done, client, writer,
                   readers, receipt, elapsed, current, reported, atTimeout, lastWaitReceipt, ahead,
                   submitterVars>>

\* let effect = { self.state.write().await.pending.pop_front() }
TrackerPop ==
    /\ trackerPc = "pop"
    /\ CanWrite
    /\ IF pending # <<>>
       THEN /\ current' = Head(pending)
            /\ ahead' = [e \in DOMAIN ahead |-> ahead[e] \ {Head(pending)}]
            /\ pending' = pop_front(pending)
            /\ trackerPc' = "query"
       ELSE /\ current' = 0
            /\ ahead' = ahead
            /\ pending' = pending
            /\ trackerPc' = "idle"
    /\ UNCHANGED <<genVars, operations, submit_operations_done, client, writer, readers,
                   receipt, elapsed, reported, atTimeout, lastWaitReceipt, submitterVars>>

\* self.state.read().await.client.get_transaction_receipt(hash): the read
\* guard is a temporary of the `if` condition, alive while the call is
TrackerQuery ==
    /\ trackerPc = "query"
    /\ CanRead
    /\ readers' = readers \cup {"tracker"}
    /\ trackerPc' = "receipt"
    /\ UNCHANGED <<genVars, operations, pending, submit_operations_done, client, writer,
                   receipt, elapsed, current, reported, atTimeout, lastWaitReceipt, ahead,
                   submitterVars>>

\* the receipt is there: "receive_receipt" is logged and the effect dropped
TrackerReceiveReceipt ==
    /\ trackerPc = "receipt"
    /\ current \in receipt
    /\ readers' = readers \ {"tracker"}
    /\ reported' = [reported EXCEPT ![current] = Append(@, "receive_receipt")]
    /\ current' = 0
    /\ trackerPc' = "check"
    /\ UNCHANGED <<genVars, operations, pending, submit_operations_done, client, writer,
                   receipt, elapsed, atTimeout, lastWaitReceipt, ahead, submitterVars>>
TrackerStillPendingReinit ==
    /\ trackerPc = "receipt"
    /\ current \notin receipt
    /\ ~TimedOut(current)
    /\ readers' = readers \ {"tracker"}
    /\ lastWaitReceipt' = elapsed[current]
    /\ trackerPc' = "requeue"
    /\ client' = NonceManagerMiddleware_new(client)
    /\ UNCHANGED <<genVars, operations, pending, submit_operations_done, writer,
                   receipt, elapsed, current, reported, atTimeout, ahead,
                   submitterVars>>

\* no receipt ("wait_receipt" is logged with start.elapsed()) and
\* start.elapsed() <= 90s: the effect goes back to the queue
TrackerStillPending ==
    /\ trackerPc = "receipt"
    /\ current \notin receipt
    /\ ~TimedOut(current)
    /\ readers' = readers \ {"tracker"}
    /\ lastWaitReceipt' = elapsed[current]
    /\ trackerPc' = "requeue"
    /\ UNCHANGED <<genVars, operations, pending, submit_operations_done, client, writer,
                   receipt, elapsed, current, reported, atTimeout, ahead,
                   submitterVars>>

\* no receipt ("wait_receipt" is logged with start.elapsed()) and
\* start.elapsed() > 90s: "receipt_timeout" is logged
TrackerTimeout ==
    /\ trackerPc = "receipt"
    /\ current \notin receipt
    /\ TimedOut(current)
    /\ readers' = readers \ {"tracker"}
    /\ reported' = [reported EXCEPT ![current] = Append(@, "receipt_timeout")]
    /\ atTimeout' = atTimeout \cup Range(pending)
    /\ lastWaitReceipt' = elapsed[current]
    /\ current' = 0
    /\ trackerPc' = "recover"
    /\ UNCHANGED <<genVars, operations, pending, submit_operations_done, client, writer,
                   receipt, elapsed, ahead, submitterVars>>

\* self.state.write().await.pending.push_back(effect)
TrackerRequeue ==
    /\ trackerPc = "requeue"
    /\ CanWrite
    /\ pending' = push_back(pending, current)
    /\ ahead' = [ahead EXCEPT ![current] = Range(pending)]
    /\ current' = 0
    /\ trackerPc' = "backoff"
    /\ UNCHANGED <<genVars, operations, submit_operations_done, client, writer, readers,
                   receipt, elapsed, reported, atTimeout, lastWaitReceipt, submitterVars>>

\* async_std::task::sleep of 1000 ms (after a re-enqueue) or of 5 s (empty
\* queue) is over
TrackerSleepDone ==
    /\ trackerPc \in {"backoff", "idle"}
    /\ trackerPc' = "check"
    /\ UNCHANGED <<genVars, operations, pending, submit_operations_done, client, writer,
                   readers, receipt, elapsed, current, reported, atTimeout, lastWaitReceipt, ahead,
                   submitterVars>>

\* let mut state = self.state.write().await: the guard is bound to `state`
\* and lives to the end of the timeout branch
TrackerRecoverNoLock ==
    /\ trackerPc = "recover"
    /\ writer' = writer
    /\ trackerPc' = "drain"
    /\ UNCHANGED <<genVars, operations, pending, submit_operations_done, client, readers,
                   receipt, elapsed, current, reported, atTimeout, lastWaitReceipt, ahead,
                   submitterVars>>

TrackerRecover ==
    /\ trackerPc = "recover"
    /\ CanWrite
    /\ writer' = "tracker"
    /\ trackerPc' = "drain"
    /\ UNCHANGED <<genVars, operations, pending, submit_operations_done, client, readers,
                   receipt, elapsed, current, reported, atTimeout, lastWaitReceipt, ahead,
                   submitterVars>>

DrainFirstOnly ==
    /\ IF pending # <<>>
       THEN /\ reported' = [reported EXCEPT
                               ![Head(pending)] = Append(@, "effect_clear")]
            /\ pending' = pop_front(pending)
       ELSE /\ reported' = reported
            /\ pending' = pending
    /\ trackerPc' = "reinit"
    /\ UNCHANGED <<client, writer>>

\* while let Some(effect) = state.pending.pop_front() { "effect_clear" }
Drain ==
    /\ IF pending # <<>>
       THEN /\ reported' = [reported EXCEPT
                               ![Head(pending)] = Append(@, "effect_clear")]
            /\ pending' = pop_front(pending)
            /\ trackerPc' = "drain"
       ELSE /\ reported' = reported
            /\ pending' = pending
            /\ trackerPc' = "reinit"
    /\ UNCHANGED <<client, writer>>
reinit_nonce_manager_reentrant ==
    /\ readers = {}
    /\ client' = NonceManagerMiddleware_new(client)
    /\ writer' = "none"
    /\ trackerPc' = "check"
    /\ UNCHANGED <<pending, reported>>

\* Run::reinit_nonce_manager: self.state.write().await.client = Arc::new(..);
\* on return the timeout branch ends and drops the guard bound to `state`
reinit_nonce_manager ==
    /\ CanWrite
    /\ client' = NonceManagerMiddleware_new(client)
    /\ writer' = "none"
    /\ trackerPc' = "check"
    /\ UNCHANGED <<pending, reported>>

\* the timeout branch under the guard `state`: the drain loop, then the call
\* self.reinit_nonce_manager().await
TrackerRecovery ==
    /\ trackerPc \in {"drain", "reinit"}
    /\ IF trackerPc = "drain" THEN Drain ELSE reinit_nonce_manager
    /\ UNCHANGED <<genVars, operations, submit_operations_done, readers, receipt,
                   elapsed, current, atTimeout, lastWaitReceipt, ahead, submitterVars>>

\* let state = self.state.read().await; if TerminationCondition { break }
TrackerCheck ==
    /\ trackerPc = "check"
    /\ CanRead
    /\ lastWaitReceipt' = -1
    /\ trackerPc' = IF TerminationCondition THEN "stopped" ELSE "log"
    /\ UNCHANGED <<genVars, operations, pending, submit_operations_done, client, writer,
                   readers, receipt, elapsed, current, reported, atTimeout, ahead,
                   submitterVars>>

wait_for_effects ==
    \/ TrackerLog
    \/ TrackerPop
    \/ TrackerQuery
    \/ TrackerReceiveReceipt
    \/ TrackerStillPending
    \/ TrackerTimeout
    \/ TrackerRequeue
    \/ TrackerSleepDone
    \/ TrackerRecover
    \/ TrackerRecovery
    \/ TrackerCheck

----------------------------------------------------------------------------
(* Environment: the chain and the clock *)

\* the chain includes a submitted transaction: its receipt exists from now on
Mine ==
    \E i \in submitted :
        /\ i \notin receipt
        /\ reported[i] = <<>>
        /\ receipt' = receipt \cup {i}
        /\ UNCHANGED <<genVars, operations, pending, submit_operations_done, client,
                       writer, readers, elapsed, trackerVars, submitterVars>>

\* time passes: every started Instant gets older (kept up to "more than the
\* timeout", all the code compares it with) and the running sleep shorter
Tick ==
    \E d \in TickSteps :
        /\ elapsed' = [i \in DOMAIN elapsed |->
                          IF i \in submitted
                          THEN Min(elapsed[i] + d, Timeout + 1)
                          ELSE elapsed[i]]
        /\ sleepLeft' = Max(sleepLeft - d, 0)
        /\ UNCHANGED <<genVars, operations, index, submitterPc, usedClient, startedLog,
                       finishedLog, pushLog, submitted, doneSets, pending,
                       submit_operations_done, client, writer, readers,
                       receipt, trackerVars>>

Next ==
    \/ submit_operations
    \/ wait_for_effects
    \/ Mine
    \/ Tick

Spec == Init /\ [][Next]_vars

\* The executor keeps polling both activities, the chain keeps answering
\* and the clock keeps running.
FairSpec ==
    /\ Spec
    /\ WF_vars(submit_operations)
    /\ WF_vars(wait_for_effects)
    /\ WF_vars(Tick)

----------------------------------------------------------------------------
(* Operations::generate *)

\* what rng.gen::<Operation>() can return
GenOperation ==
    {Transfer(a, m) : a \in Addresses, m \in Amounts}
        \cup {Wait(d) : d \in GenDurations}

AccumulateAll(w, op) == IF op.kind = "Wait" THEN w + op.duration ELSE w + 1

\* if let Operation::Wait(duration) = operation { wait_time += duration }
Accumulate(w, op) == IF op.kind = "Wait" THEN w + op.duration ELSE w

StopReachedAtLeast(w, d) == w >= d

\* if wait_time > total_duration { break }
StopReached(w, d) == w > d

\* no Run exists while a script is generated, saved or loaded
NoRun ==
    /\ index = 0
    /\ submitterPc = "none"
    /\ sleepLeft = 0
    /\ trackerPc = "none"
    /\ current = 0
    /\ pending = <<>>
    /\ submit_operations_done = FALSE
    /\ client = 0
    /\ writer = "none"
    /\ readers = {}
    /\ receipt = {}
    /\ elapsed = <<>>
    /\ submitted = {}
    /\ usedClient = <<>>
    /\ startedLog = <<>>
    /\ finishedLog = <<>>
    /\ pushLog = <<>>
    /\ reported = <<>>
    /\ atTimeout = {}
    /\ doneSets = 0
    /\ lastWaitReceipt = -1
    /\ ahead = <<>>

\* entry of generate: wait_time = 0 seconds, operations = vec![]
GenInit ==
    /\ total_duration \in 0..MaxTarget
    /\ wait_time = 0
    /\ operations = <<>>
    /\ genPc = "loop"
    /\ data = <<>>
    /\ loaded = <<>>
    /\ NoRun

\* one turn of the loop: draw, accumulate, push, test
GenerateStep ==
    /\ genPc = "loop"
    /\ Len(operations) < MaxGenLen
    /\ \E operation \in GenOperation :
          /\ wait_time' = Accumulate(wait_time, operation)
          /\ operations' = Append(operations, operation)
          /\ genPc' = IF StopReached(Accumulate(wait_time, operation),
                                     total_duration)
                      THEN "returned" ELSE "loop"
    /\ UNCHANGED <<total_duration, data, loaded, runVars>>

GenNext == GenerateStep

GenSpec == GenInit /\ [][GenNext]_vars

----------------------------------------------------------------------------
(* Operations::save and Operations::load: serde_json over the derived      *)
(* Serialize / Deserialize of Vec<Operation>                               *)

\* digits of n in the given base, most significant first, no leading zero
RECURSIVE Digits(_, _)
Digits(n, base) ==
    IF n < base THEN <<n>> ELSE Append(Digits(n \div base, base), n % base)

\* the number written by a sequence of digits
RECURSIVE FromDigits(_, _)
FromDigits(ds, base) ==
    IF ds = <<>> THEN 0
    ELSE FromDigits(SubSeq(ds, 1, Len(ds) - 1), base) * base + ds[Len(ds)]

\* zeros in front up to a fixed width
RECURSIVE PadLeft(_, _)
PadLeft(ds, width) ==
    IF Len(ds) >= width THEN ds ELSE PadLeft(<<0>> \o ds, width)

\* hex digits of an Address (H160: 20 bytes)
AddressDigits == 40

\* Address: "0x" and 40 hex digits
SerializeAddress(a) == PadLeft(Digits(a, 16), AddressDigits)

DeserializeAddress(ds) == FromDigits(ds, 16)

\* U256: "0x" and the hex digits without leading zeros
SerializeU256(m) == Digits(m, 16)

DeserializeU256(ds) == FromDigits(ds, 16)

SerializeDurationMillis(d) ==
    [secs |-> Digits(d * 1000, 10), nanos |-> Digits(0, 10)]

\* Duration: {"secs": .., "nanos": ..} (the model has whole seconds only)
SerializeDuration(d) == [secs |-> Digits(d, 10), nanos |-> Digits(0, 10)]

DeserializeDuration(j) ==
    FromDigits(j.secs, 10) + (FromDigits(j.nanos, 10) \div 1000000000)

\* an Operation as an externally tagged JSON value
SerializeOperation(op) ==
    IF op.kind = "Transfer"
    THEN [tag |-> "Transfer",
          value |-> [to |-> SerializeAddress(op.to),
                     amount |-> SerializeU256(op.amount)]]
    ELSE [tag |-> "Wait", value |-> SerializeDuration(op.duration)]

DeserializeOperation(j) ==
    IF j.tag = "Transfer"
    THEN Transfer(DeserializeAddress(j.value.to),
                  DeserializeU256(j.value.amount))
    ELSE Wait(DeserializeDuration(j.value))

\* serde_json::to_string_pretty(&self.0)
to_string_pretty(ops) == [k \in DOMAIN ops |-> SerializeOperation(ops[k])]

\* serde_json::from_str(&data)
from_str(json) == [k \in DOMAIN json |-> DeserializeOperation(json[k])]

SavedOperation ==
    {Transfer(a, m) : a \in SavedAddresses, m \in SavedAmounts}
        \cup {Wait(d) : d \in SavedDurations}

\* some Operations value, about to be saved
PersistInit ==
    /\ operations \in SeqsUpTo(SavedOperation, MaxOps)
    /\ total_duration = 0
    /\ wait_time = 0
    /\ genPc = "save"
    /\ data = <<>>
    /\ loaded = <<>>
    /\ NoRun

\* Operations::save
save ==
    /\ genPc = "save"
    /\ data' = to_string_pretty(operations)
    /\ genPc' = "load"
    /\ UNCHANGED <<operations, total_duration, wait_time, loaded, runVars>>

\* Operations::load
load ==
    /\ genPc = "load"
    /\ loaded' = from_str(data)
    /\ genPc' = "loaded"
    /\ UNCHANGED <<operations, total_duration, wait_time, data, runVars>>

PersistNext == save \/ load

PersistSpec == PersistInit /\ [][PersistNext]_vars

----------------------------------------------------------------------------
(* Properties *)

\* number of times effect e is in the queue q
Occurrences(q, e) == Cardinality({k \in DOMAIN q : q[k] = e})

\* the sequence <<1, .., n>>
UpTo(n) == [k \in 1..n |-> k]

\* client handles a run can go through
Clients == 0..MaxOps

\* the tracker is between the start of the drain and the return of
\* reinit_nonce_manager
InRecovery == trackerPc \in {"drain", "reinit"}

\* C1: liveness of wait_for_effects. In every run in which submit_operations
\* completes and every submitted transfer gets a receipt or becomes older
\* than the timeout (the clock of FairSpec never stops), the tracker reaches
\* submit_operations_done /\ pending empty and stops.
C1_Termination ==
    submit_operations_done ~> (trackerPc = "stopped" /\ TerminationCondition)

\* C2: whenever the tracker finds an effect without receipt that is older
\* than the timeout, recovery completes: the queue is empty and the client
\* handle of the state is a freshly built one.
C2_RecoveryCompletes ==
    \A c \in Clients :
        (trackerPc = "recover" /\ client = c)
            ~> (pending = <<>> /\ client # c /\ ~InRecovery)

\* C3: recovery atomicity. An effect that is queued when the tracker detects
\* a timeout is never reported confirmed, never gets back into the queue
\* once drained, and is reported cleared by the time the drain is over.
C3_RecoveryAtomicity ==
    /\ [](\A e \in atTimeout :
            /\ "receive_receipt" \notin Range(reported[e])
            /\ e # current
            /\ trackerPc \notin {"recover", "drain"}
                  => reported[e] = <<"effect_clear">>)
    /\ [][\A e \in atTimeout :
            Occurrences(pending', e) <= Occurrences(pending, e)]_vars

C3_Witness ==
    /\ trackerPc = "reinit"
    /\ Cardinality(atTimeout) >= 2
    /\ \A e \in atTimeout : reported[e] = <<"effect_clear">>

\* C4: from the start of the drain on, the recovery holds the write guard
\* and nobody holds a read guard; in that interval the submitter neither
\* pushes an effect nor reads the client handle.
C4_RecoveryExclusive ==
    /\ [](InRecovery => writer = "tracker" /\ readers = {})
    /\ [][InRecovery => /\ pushLog' = pushLog
                        /\ usedClient' = usedClient
                        /\ startedLog' = startedLog]_vars

\* an effect has been drained while the submitter holds one it wants to push
C4_Witness ==
    /\ InRecovery
    /\ \E i \in DOMAIN reported : reported[i] = <<"effect_clear">>
    /\ submitterPc = "push"

\* every operation of the script has been executed and the effect of every
\* transfer has been pushed
AllExecuted ==
    /\ finishedLog = UpTo(Len(operations))
    /\ startedLog = UpTo(Len(operations))
    /\ \A i \in DOMAIN operations :
          operations[i].kind = "Transfer" => Occurrences(pushLog, i) = 1

\* C5: submit_operations_done is false until it is assigned, is assigned at
\* most once, never goes back to false, and is true only when every
\* operation has been executed and every effect pushed.
C5_DoneFlag ==
    /\ [](doneSets <= 1)
    /\ [](doneSets = 0 => ~submit_operations_done)
    /\ [][submit_operations_done => submit_operations_done']_vars
    /\ [](submit_operations_done => AllExecuted)

C5_Witness ==
    /\ submit_operations_done
    /\ Len(operations) >= 2
    /\ pushLog # <<>>
    /\ \E i \in DOMAIN operations : operations[i].kind = "Wait"

\* C6: queue invariant. Every effect in pending belongs to a transfer of the
\* script (never to a wait) that has been submitted and has not been
\* reported confirmed, timed out or cleared.
C6_QueueInvariant ==
    \A k \in DOMAIN pending :
        /\ pending[k] \in DOMAIN operations
        /\ operations[pending[k]].kind = "Transfer"
        /\ pending[k] \in submitted
        /\ reported[pending[k]] = <<>>

C6_Witness ==
    /\ pending # <<>>
    /\ \E i \in Range(finishedLog) : operations[i].kind = "Wait"
    /\ \E i \in DOMAIN reported : reported[i] = <<"receive_receipt">>

\* C7: no effect is in pending twice, and the effect the tracker has popped
\* is not in pending.
C7_NoDuplicates ==
    /\ \A j, k \in DOMAIN pending : j # k => pending[j] # pending[k]
    /\ current # 0 => current \notin Range(pending)

\* a re-enqueued effect sits behind an effect pushed after it
C7_Witness ==
    \E j, k \in DOMAIN pending : j < k /\ pending[j] > pending[k]

\* C8: the operations are executed in script order, each once and one at a
\* time, and the effects of the transfers are appended to the tail of pending
\* in script order.
C8_ScriptOrder ==
    /\ [](/\ startedLog = UpTo(Len(startedLog))
          /\ finishedLog = UpTo(Len(finishedLog))
          /\ Len(startedLog) <= Len(operations)
          /\ Len(startedLog) - Len(finishedLog) \in {0, 1}
          /\ \A k \in DOMAIN pushLog :
                /\ pushLog[k] \in Range(finishedLog)
                /\ operations[pushLog[k]].kind = "Transfer"
                /\ \A j \in DOMAIN pushLog : j < k => pushLog[j] < pushLog[k])
    /\ [][pushLog' # pushLog =>
             /\ pushLog' = Append(pushLog, index)
             /\ pending' = Append(pending, index)
             /\ Len(finishedLog) = index]_vars

C8_Witness ==
    /\ Len(pushLog) >= 2
    /\ Len(finishedLog) >= 3
    /\ \E i \in Range(finishedLog) : operations[i].kind = "Wait"

\* C9: the tracker stops only when submit_operations_done holds and pending
\* is empty, and then every submitted effect has been reported exactly once;
\* at any time a pushed effect is either in the queue, or held by the
\* tracker, or reported once.
C9_StopsWhenAllResolved ==
    /\ \A i \in Range(pushLog) :
          Occurrences(pending, i) + (IF current = i THEN 1 ELSE 0)
              + Len(reported[i]) = 1
    /\ trackerPc = "stopped" =>
          /\ submit_operations_done
          /\ pending = <<>>
          /\ current = 0
          /\ \A i \in submitted : Len(reported[i]) = 1

C9_Witness ==
    /\ trackerPc = "stopped"
    /\ Cardinality(submitted) >= 2

\* C10: while the submitter is suspended in a Wait, the tracker is not
\* blocked by it: when it wants to pop the head of the queue, or to put the
\* effect it checked back, it gets the lock.
C10_TrackerNotBlockedByWait ==
    /\ (submitterPc = "sleeping" /\ trackerPc = "pop") => ENABLED TrackerPop
    /\ (submitterPc = "sleeping" /\ trackerPc = "requeue")
          => ENABLED TrackerRequeue

\* C13: a failed send_transaction ends the submission at that operation: the
\* transfer is not executed again, has no effect in the queue, no later
\* operation is started and submit_operations_done stays false.
C13_SubmissionFailureAborts ==
    /\ [](submitterPc = "panicked" =>
            /\ index \notin submitted
            /\ Occurrences(pushLog, index) = 0
            /\ index \notin Range(pending)
            /\ startedLog = UpTo(index)
            /\ ~submit_operations_done)
    /\ [][(submitterPc = "sending" /\ submitterPc' # "sending"
              /\ submitted' = submitted) => submitterPc' = "panicked"]_vars
    /\ [][submitterPc = "panicked" =>
             /\ UNCHANGED submitterVars
             /\ submit_operations_done' = submit_operations_done]_vars

C13_Witness ==
    /\ submitterPc = "panicked"
    /\ 1 < index
    /\ index < Len(operations)

\* C14: an effect without receipt whose elapsed time is at most the timeout
\* (exactly the timeout included) goes back to the tail of pending, nothing
\* else is drained and the client stays; recovery starts only when the
\* elapsed time is strictly greater than the timeout.
C14_StillPendingUpToTimeout ==
    /\ [][(trackerPc = "receipt" /\ trackerPc' # "receipt"
              /\ current \notin receipt) =>
             IF elapsed[current] <= Timeout
             THEN /\ trackerPc' = "requeue"
                  /\ current' = current
                  /\ pending' = pending
                  /\ client' = client
                  /\ reported' = reported
             ELSE trackerPc' = "recover"]_vars
    /\ [][(trackerPc = "requeue" /\ trackerPc' # "requeue") =>
             /\ pending' = Append(pending, current)
             /\ client' = client
             /\ reported' = reported]_vars
    /\ [](trackerPc \in {"recover", "drain", "reinit"}
             => lastWaitReceipt > Timeout)

\* re-enqueued at exactly the timeout, behind an effect that stays queued
C14_Witness ==
    /\ trackerPc = "backoff"
    /\ lastWaitReceipt = Timeout
    /\ Len(pending) >= 2

\* C15: the tracker pops the head of pending, and an effect that was
\* re-enqueued is not popped again before every effect that was queued at
\* its re-enqueue has been popped.
C15_FifoChecks ==
    /\ [][(current' # current /\ current' # 0)
             => current' = Head(pending)]_vars
    /\ [](current # 0 => ahead[current] = {})

\* an effect waits behind one that was queued at its re-enqueue while a
\* third one is being checked
C15_Witness ==
    \E e \in Range(pending) : ahead[e] # {} /\ current \notin {0, e}

\* the task awaits RwLock::read or RwLock::write
RequestsLock(t) ==
    IF t = "tracker"
    THEN trackerPc \in {"log", "pop", "query", "requeue", "recover", "reinit",
                        "check"}
    ELSE submitterPc \in {"read_client", "push", "finish"}

\* the task owns a guard of the lock
HoldsGuard(t) == writer = t \/ t \in readers

\* C17: no activity requests the lock of the state while it still holds a
\* guard on it (so no request waits for ever).
C17_NoRequestWhileHolding ==
    \A t \in {"submitter", "tracker"} : RequestsLock(t) => ~HoldsGuard(t)

C19_ClientStableDuringSubmission ==
    /\ [](submitterPc \in {"sending", "sleeping"} =>
            /\ "submitter" \in readers
            /\ writer = "none"
            /\ usedClient[index] = client)
    /\ [][(submitterPc \in {"sending", "sleeping"}) => client' = client]_vars
    /\ [][finishedLog' # finishedLog => (client' = usedClient[index])]_vars

\* a submission is in flight while the tracker wants to start recovery
C19_Witness ==
    /\ submitterPc = "sending"
    /\ trackerPc = "recover"

\* C20: the client handle changes only in the timeout branch of the tracker:
\* no submitter step and no other tracker step changes it; the tracker steps
\* of a cycle that finds the queue empty also leave pending and the done
\* flag alone.
C20_ClientFrame ==
    [][/\ client' # client => trackerPc = "reinit"
       /\ submitterVars' # submitterVars => client' = client
       /\ (trackerPc' # trackerPc
              /\ trackerPc \notin {"recover", "drain", "reinit"})
             => client' = client
       /\ (trackerPc' # trackerPc
              /\ (\/ trackerPc \in {"log", "idle", "check"}
                  \/ trackerPc = "pop" /\ pending = <<>>))
             => /\ pending' = pending
                /\ submit_operations_done' = submit_operations_done
                /\ client' = client]_vars

C20_Witness ==
    /\ trackerPc = "idle"
    /\ finishedLog # <<>>

\* sum of the Wait durations of a script
RECURSIVE WaitSum(_)
WaitSum(ops) ==
    IF ops = <<>> THEN 0
    ELSE (IF Head(ops).kind = "Wait" THEN Head(ops).duration ELSE 0)
            + WaitSum(Tail(ops))

\* C11: the script generate returns has at least one operation and its Wait
\* durations sum to strictly more than total_duration; a Wait of duration 0
\* drawn first for total_duration = 0 does not end the loop.
C11_GenerationBound ==
    /\ [](genPc = "returned" =>
            /\ Len(operations) >= 1
            /\ WaitSum(operations) > total_duration)
    /\ [][(genPc = "loop" /\ total_duration = 0 /\ operations = <<>>
              /\ operations' = <<Wait(0)>>) => genPc' = "loop"]_vars

C11_Witness ==
    /\ genPc = "returned"
    /\ total_duration = 0
    /\ Len(operations) >= 2
    /\ operations[1] = Wait(0)

C16_Tightness ==
    genPc = "returned" =>
        LET n == Len(operations)
        IN  /\ n >= 1
            /\ operations[n].kind = "Wait"
            /\ operations[n].duration > 0
            /\ WaitSum(SubSeq(operations, 1, n - 1)) <= total_duration

\* the waits before the last one add up to exactly total_duration
C16_Witness ==
    /\ genPc = "returned"
    /\ total_duration > 0
    /\ Len(operations) >= 3
    /\ \E k \in DOMAIN operations : operations[k].kind = "Transfer"
    /\ WaitSum(SubSeq(operations, 1, Len(operations) - 1)) = total_duration

====
